---- MODULE Spec2Model ----
(***************************************************************************)
(* Camera lifecycle and risk-scoring engine of HSE Guardian AI.            *)
(*                                                                         *)
(* src/App.tsx holds two revisions of the HSEGuardianAI component:         *)
(*   rev = "A"  lines 1-374   (coco-ssd scheduler, cooldowns, persistence, *)
(*                             camera registry edited by CameraSetupModal) *)
(*   rev = "B"  lines 376-994 (45 fixed cameras, simulated processFrame,   *)
(*                             stream cap, score decay)                    *)
(* The revision is fixed at start-up; every action is guarded by the       *)
(* revision whose code it models.                                          *)
(***************************************************************************)
EXTENDS Integers, Sequences, FiniteSets, TLC

VARIABLES
    rev,               \* which revision of the component runs
    now,               \* Date.now(), in ms
    cameras,           \* useState<CameraDevice[]>: sequence of records
    currentPage,       \* useState(0)
    startCalls,        \* getUserMedia calls in flight: set of [cam, k]
    liveStreams,       \* MediaStreams whose tracks have not been stopped
    detections,        \* useState<Detection[]>: the log, most recent first
    safetyScore,       \* useState<SafetyScore>, in units of half a point
    selectedCameraId,  \* useState<string | null>; 0 is null
    net,               \* revision A: the coco-ssd model is loaded
    engine,            \* revision A: localAi.isReady()
    isProcessingRef,   \* revision A: a net.detect call is in flight
    lastAlertTimeRef,  \* revision A: cooldown key -> time of the last alert
    chains,            \* revision A: runDetection chains started so far
    timers,            \* revision A: pending setTimeout(runDetection, delay)
    detectCalls,       \* revision A: net.detect calls in flight
    visionCalls,       \* revision A: per camera, analyzeImage calls in flight
    frameCountRef,     \* revision B: frame counter, modulo FRAME_SKIP
    isInitializing,    \* revision A: LocalAiService.isInitializing
    initCalls,         \* revision A: initialize calls toggleOfflineAI awaits
    offlineAI,         \* revision A: useState<OfflineAIState>
    metrics,           \* PerformanceMonitor.metrics, oldest first
    lastOp             \* the operation that made the last step

\* what the camera lifecycle does not touch
logVars == <<detections, safetyScore>>
schedVars == <<selectedCameraId, net, engine, isProcessingRef, lastAlertTimeRef,
               chains, timers, detectCalls, visionCalls>>
engineVars == <<logVars, schedVars, frameCountRef>>
aiVars == <<isInitializing, initCalls, offlineAI>>
vars == <<rev, now, cameras, currentPage, startCalls, liveStreams, detections,
          safetyScore, selectedCameraId, net, engine, isProcessingRef,
          lastAlertTimeRef, chains, timers, detectCalls, visionCalls,
          frameCountRef, isInitializing, initCalls, offlineAI, metrics,
          lastOp>>

----------------------------------------------------------------------------
(* Bounds of the model *)

\* cameras of revision B in the lifecycle specification (45 in the source)
NumCamsLife == 2
\* cameras of revision B in the stream-cap specifications (45 in the source)
NumCamsCap == 10
\* getUserMedia calls pending plus streams live, lifecycle specification
MaxCallsLife == 3
\* getUserMedia calls pending plus streams live, stream-cap specifications
MaxCallsCap == 10
\* capacity of the detection log: MAX_LOGS is 200 in revision A and 100 in
\* revision B; the model keeps the code's truncation and scales the capacity
MAX_LOGS == 2
\* Date.now() when the component mounts
StartTime == 100000
\* scheduler specification: closures of runDetection, and clock ticks of
\* BUSY_DELAY ms
MaxChains == 2
MaxTicksSched == 2
\* score specification: vision audits in flight, and clock ticks of a
\* cooldown and a detection interval
MaxVision == 1
MaxTicksScore == 3
MaxTicksCool == 3
MaxTicksEdge == 3
MaxQueue == 3
\* initialize calls toggleOfflineAI awaits at once
MaxInitCalls == 2
\* capacity of the metrics history: maxMetrics is 100 in the source; the
\* model keeps the code's eviction and scales the capacity
maxMetrics == 2
\* seconds that pass in the specification of the performance monitor
MaxTicksMonitor == 3

(* Program constants *)

MAX_SIMULTANEOUS_STREAMS == 9
CAMERAS_PER_PAGE == 9
FRAME_SKIP == 10
DETECTION_INTERVAL == 1200
\* setTimeout(runDetection, 100): an evaluation is in flight
BUSY_DELAY == 100
\* setTimeout(runDetection, 1500): no camera is active and online
IDLE_DELAY == 1500
\* prediction.score < 0.65, in hundredths
MIN_SCORE == 65
\* now - lastAlert > 10000
COOLDOWN == 10000
\* now - lastAlert[vision] > 30000
VISION_COOLDOWN == 30000
\* score units per point: the decay of revision B adds 0.5 to overall
UNIT == 2

----------------------------------------------------------------------------
(* Helpers on sequences: the Array methods the code uses *)

Min(a, b) == IF a < b THEN a ELSE b
Max(a, b) == IF a > b THEN a ELSE b

\* Array.prototype.slice(from, to), 0-based, to exclusive
Slice(s, from, to) ==
    SubSeq(s, from + 1, Min(to, Len(s)))

Range(s) == {s[i] : i \in 1..Len(s)}

\* revision A: the capture devices and the network cameras the operator can add
LocalIds == {1}
NetworkIds == {2}

NoStream == <<>>

IdsOf(cams) == {cams[i].id : i \in 1..Len(cams)}
ActiveIds(cams) == {cams[i].id : i \in {j \in 1..Len(cams) : cams[j].active}}

----------------------------------------------------------------------------
(* Camera records *)

\* CameraDevice (types.ts); only the fields the engine reads or writes
Camera(id, type, active, status) ==
    [id |-> id, connectionType |-> type, active |-> active, status |-> status,
     stream |-> NoStream, riskScore |-> 0]

\* prev.map(cam => cam.id === cameraId ? updated : cam), where updated[i] is
\* the new value of the i-th record
MapCamera(cams, cameraId, updated) ==
    [i \in 1..Len(cams) |-> IF cams[i].id = cameraId THEN updated[i] ELSE cams[i]]

\* cameras.find(c => c.id === cameraId) exists
HasCamera(cams, cameraId) == cameraId \in IdsOf(cams)

\* cameras.find(c => c.id === cameraId): the first match
FindCamera(cams, cameraId) ==
    cams[CHOOSE i \in 1..Len(cams) :
            /\ cams[i].id = cameraId
            /\ \A j \in 1..(i - 1) : cams[j].id # cameraId]

\* the streams camera records refer to
AttachedStreams(cams) ==
    {cams[i].stream : i \in 1..Len(cams)} \ {NoStream}

\* revision B: Array.from({ length: 45 }, ...), all offline and inactive
InitialCamerasB(n) ==
    [i \in 1..n |-> Camera(i, "local", FALSE, "offline")]

\* filteredCameras.slice(currentPage * 9, currentPage * 9 + 9)
visibleCameras ==
    Slice(cameras, currentPage * CAMERAS_PER_PAGE,
          currentPage * CAMERAS_PER_PAGE + CAMERAS_PER_PAGE)

\* Math.ceil(filteredCameras.length / CAMERAS_PER_PAGE)
totalPages ==
    (Len(cameras) + CAMERAS_PER_PAGE - 1) \div CAMERAS_PER_PAGE

\* the record of the last operation: its name, the camera or closure it
\* acted on, and its input or outcome
Op(op, cam, arg) == [op |-> op, cam |-> cam, arg |-> arg]

----------------------------------------------------------------------------
(* Camera lifecycle: startCamera *)

\* revision A, network camera: { ...cam, active: true, status: 'online' }
StartedNetwork(cam) ==
    [cam EXCEPT !.active = TRUE, !.status = "online"]

\* revision A, getUserMedia resolved
StartSucceededA(cam, stream) ==
    [cam EXCEPT !.active = TRUE, !.stream = stream, !.status = "online"]

\* revision A, getUserMedia rejected (any error)
StartFailedA(cam, err) ==
    [cam EXCEPT !.status = "no-hardware", !.active = FALSE]

\* revision B, getUserMedia resolved
StartSucceededB(cam, stream) ==
    [cam EXCEPT !.active = TRUE, !.stream = stream, !.status = "online"]

\* revision B, getUserMedia rejected (any error)
StartFailedB(cam, err) ==
    [cam EXCEPT !.status = "offline"]

\* revision B: cameras.filter(c => c.active).length >= MAX_SIMULTANEOUS_STREAMS
AtCapacity(cams) ==
    Cardinality({i \in 1..Len(cams) : cams[i].active}) >= MAX_SIMULTANEOUS_STREAMS

\* the part of startCamera that runs before its await: TRUE when the call
\* goes on to navigator.mediaDevices.getUserMedia
RequestsStream(cameraId) ==
    IF rev = "A"
    THEN /\ HasCamera(cameras, cameraId)
         /\ FindCamera(cameras, cameraId).connectionType # "network"
    ELSE ~AtCapacity(cameras)

\* the k of the calls and streams of a camera that are pending or live
InUse(id) ==
    {c.k : c \in {x \in startCalls : x.cam = id}}
        \cup {st[2] : st \in {x \in liveStreams : x[1] = id}}

\* a name for the next call of a camera, and for the stream it will produce
FreshK(id) == CHOOSE k \in 1..(Cardinality(InUse(id)) + 1) : k \notin InUse(id)

\* the getUserMedia calls a set of startCamera calls issues
NewCalls(ids) == {[cam |-> id, k |-> FreshK(id)] : id \in ids}

\* startCamera(cameraId), up to its await
StartCamera(cameraId, maxCalls) ==
    /\ IF RequestsStream(cameraId)
       THEN /\ Cardinality(startCalls) + Cardinality(liveStreams) < maxCalls
            /\ startCalls' = startCalls \cup NewCalls({cameraId})
            /\ cameras' = cameras
       ELSE /\ cameras' = IF rev = "A" /\ HasCamera(cameras, cameraId)
                          THEN MapCamera(cameras, cameraId,
                                         [i \in 1..Len(cameras) |-> StartedNetwork(cameras[i])])
                          ELSE cameras
            /\ UNCHANGED startCalls
    /\ lastOp' = Op("startCamera", cameraId, RequestsStream(cameraId))
    /\ UNCHANGED <<rev, aiVars, metrics, now, currentPage, liveStreams>>
    /\ UNCHANGED engineVars

\* getUserMedia resolves: the continuation of startCamera after the await
GetUserMediaResolves(call) ==
    /\ call \in startCalls
    /\ LET stream == <<call.cam, call.k>>
           Attach(cam) == IF rev = "A" THEN StartSucceededA(cam, stream)
                          ELSE StartSucceededB(cam, stream)
       IN  /\ cameras' = MapCamera(cameras, call.cam,
                                   [i \in 1..Len(cameras) |-> Attach(cameras[i])])
           /\ liveStreams' = liveStreams \cup {stream}
    /\ startCalls' = startCalls \ {call}
    /\ lastOp' = Op("getUserMediaResolves", call.cam, 0)
    /\ UNCHANGED <<rev, aiVars, metrics, now, currentPage>>
    /\ UNCHANGED engineVars

\* the errors getUserMedia rejects with
MediaErrors == {"NotFoundError", "NotAllowedError"}

\* getUserMedia rejects: the catch block of startCamera
GetUserMediaRejects(call, err) ==
    /\ call \in startCalls
    /\ LET Fail(cam) == IF rev = "A" THEN StartFailedA(cam, err)
                        ELSE StartFailedB(cam, err)
       IN  cameras' = MapCamera(cameras, call.cam,
                                [i \in 1..Len(cameras) |-> Fail(cameras[i])])
    /\ startCalls' = startCalls \ {call}
    /\ lastOp' = Op("getUserMediaRejects", call.cam, err)
    /\ UNCHANGED <<rev, aiVars, metrics, now, currentPage, liveStreams>>
    /\ UNCHANGED engineVars

\* a bulk start of the whole registry instead of the visible page
BulkTargetsAllPages ==
    LET Inactive(c) == ~c.active
    IN  SelectSeq(cameras, Inactive)

\* startAllCamerasInPage (revision B): visibleCameras.filter(c => !c.active)
\*   .slice(0, MAX_SIMULTANEOUS_STREAMS).map(c => startCamera(c.id))
BulkTargets ==
    LET Inactive(c) == ~c.active
    IN  Slice(SelectSeq(visibleCameras, Inactive), 0, MAX_SIMULTANEOUS_STREAMS)

StartAllCamerasInPage(maxCalls) ==
    /\ rev = "B"
    /\ LET ids == {id \in IdsOf(BulkTargets) : RequestsStream(id)}
       IN  /\ Cardinality(startCalls) + Cardinality(liveStreams)
                  + Cardinality(ids) <= maxCalls
           /\ startCalls' = startCalls \cup NewCalls(ids)
           /\ lastOp' = Op("startAllCamerasInPage", 0, Cardinality(ids))
    /\ UNCHANGED <<rev, aiVars, metrics, now, cameras, currentPage, liveStreams>>
    /\ UNCHANGED engineVars

----------------------------------------------------------------------------
(* Camera lifecycle: stopCamera *)

\* { ...cam, active: false, stream: undefined, status: 'offline' }
Stopped(cam) ==
    [cam EXCEPT !.active = FALSE, !.stream = NoStream, !.status = "offline"]

\* the updater of stopCamera: only a record that holds a stream is changed
StopOne(cam) ==
    IF cam.stream # NoStream THEN Stopped(cam) ELSE cam

\* the streams stopCamera(cameraId) stops the tracks of
StreamsOf(cams, ids) ==
    {cams[i].stream : i \in {j \in 1..Len(cams) : cams[j].id \in ids}} \ {NoStream}

StopCamera(cameraId) ==
    /\ cameras' = MapCamera(cameras, cameraId,
                            [i \in 1..Len(cameras) |-> StopOne(cameras[i])])
    /\ liveStreams' = liveStreams \ StreamsOf(cameras, {cameraId})
    /\ lastOp' = Op("stopCamera", cameraId, 0)
    /\ UNCHANGED <<rev, aiVars, metrics, now, currentPage, startCalls>>
    /\ UNCHANGED engineVars

\* stopAllCameras (revision B): cameras.filter(c => c.active).forEach(stopCamera)
StopAllCameras ==
    /\ rev = "B"
    /\ cameras' = [i \in 1..Len(cameras) |->
                     IF cameras[i].active THEN StopOne(cameras[i]) ELSE cameras[i]]
    /\ liveStreams' = liveStreams \ StreamsOf(cameras, ActiveIds(cameras))
    /\ lastOp' = Op("stopAllCameras", 0, 0)
    /\ UNCHANGED <<rev, aiVars, metrics, now, currentPage, startCalls>>
    /\ UNCHANGED engineVars

\* Pagination onPageChange (revision B)
SetCurrentPage(page) ==
    /\ rev = "B"
    /\ page \in 0..(totalPages - 1)
    /\ page # currentPage
    /\ currentPage' = page
    /\ lastOp' = Op("setCurrentPage", 0, page)
    /\ UNCHANGED <<rev, aiVars, metrics, now, cameras, startCalls, liveStreams>>
    /\ UNCHANGED engineVars

----------------------------------------------------------------------------
(* Detection log and scores *)

\* a number of points in score units
Pts(p) == p * UNIT

\* Detection (types.ts); the id and the description are not modelled
Detection(cameraId, type, severity, timestamp) ==
    [cameraId |-> cameraId, type |-> type, severity |-> severity,
     timestamp |-> timestamp]

\* a log that appends the new entry behind the old ones before it cuts
PushLogBehind(log, detection) ==
    Slice(log \o <<detection>>, 0, MAX_LOGS)

\* setDetections(prev => [detection, ...prev].slice(0, MAX_LOGS))
PushLog(log, detection) ==
    Slice(<<detection>> \o log, 0, MAX_LOGS)

\* revision A, addDetection: the setSafetyScore updater
SafetyAfterDetectionA(score, detection) ==
    [score EXCEPT
        !.overall = Max(0, @ - Pts(IF detection.severity = "high" THEN 5 ELSE 2)),
        !.behavior = IF detection.type = "behavior" THEN Max(0, @ - Pts(5)) ELSE @]

\* revision A, runDetection: riskScore: Math.min(100, cam.riskScore + 15)
RiskAfterDetectionA(cam) ==
    [cam EXCEPT !.riskScore = Min(100, @ + 15)]

\* revision B, processFrame: Math.min(100, cam.riskScore + (critical ? 30 : 10))
RiskAfterViolationB(cam, severity) ==
    [cam EXCEPT !.riskScore = Min(100, @ + (IF severity = "critical" THEN 30 ELSE 10))]

\* revision B, processFrame: overall: Math.max(50, prev.overall - 1)
SafetyAfterViolationB(score) ==
    [score EXCEPT !.overall = Max(Pts(50), @ - Pts(1))]

\* the decay of riskScore without Math.max(0, ...)
RiskAfterDecayUnclamped(cam) ==
    [cam EXCEPT !.riskScore = @ - 2]

\* revision B, decay: riskScore: Math.max(0, cam.riskScore - 2)
RiskAfterDecay(cam) ==
    [cam EXCEPT !.riskScore = Max(0, @ - 2)]

\* revision B, decay: overall: Math.min(100, prev.overall + 0.5)
SafetyAfterDecay(score) ==
    [score EXCEPT !.overall = Min(Pts(100), @ + 1)]

\* { overall: 100, ppe: 100, behavior: 100, environment: 100 }
BaselineSafetyScore ==
    [overall |-> Pts(100), ppe |-> Pts(100), behavior |-> Pts(100),
     environment |-> Pts(100)]

\* revision B: { overall: 98, ppe: 99, behavior: 95, environment: 98 }
InitialSafetyScoreB ==
    [overall |-> Pts(98), ppe |-> Pts(99), behavior |-> Pts(95),
     environment |-> Pts(98)]

\* clearLogs without the test of window.confirm at line 103
ClearLogsUnasked(confirmed) ==
    /\ rev = "A"
    /\ detections' = <<>>
    /\ safetyScore' = BaselineSafetyScore
    /\ lastOp' = IF confirmed THEN Op("clearLogs", 0, confirmed) ELSE lastOp
    /\ UNCHANGED <<rev, aiVars, metrics, now, cameras, currentPage, startCalls, liveStreams,
                   schedVars, frameCountRef>>

\* clearLogs (revision A); confirmed is the answer to window.confirm, and a
\* dismissed dialog leaves everything as it was
ClearLogs(confirmed) ==
    /\ rev = "A"
    /\ detections' = IF confirmed THEN <<>> ELSE detections
    /\ safetyScore' = IF confirmed THEN BaselineSafetyScore ELSE safetyScore
    /\ lastOp' = IF confirmed THEN Op("clearLogs", 0, confirmed) ELSE lastOp
    /\ UNCHANGED <<rev, aiVars, metrics, now, cameras, currentPage, startCalls, liveStreams,
                   schedVars, frameCountRef>>

\* the clock advances by d ms, up to a horizon
AdvanceTime(d, horizon) ==
    /\ d > 0
    /\ now + d <= horizon
    /\ now' = now + d
    /\ lastOp' = Op("advanceTime", 0, d)
    /\ UNCHANGED <<rev, aiVars, metrics, cameras, currentPage, startCalls, liveStreams, engineVars>>

----------------------------------------------------------------------------
(* Revision B: simulated detection and score decay *)

\* the violations processFrame draws from: type and severity
Violations ==
    { <<"ppe", "medium">>, <<"ppe", "low">>, <<"geofence", "high">>,
      <<"fall", "critical">>, <<"behavior", "medium">> }

\* updateProcessingQueue: the active cameras by descending riskScore (a stable
\* sort), the first MAX_SIMULTANEOUS_STREAMS of them, as a set of ids
processingQueue ==
    LET act == {i \in 1..Len(cameras) : cameras[i].active}
        Before(i, j) == \/ cameras[i].riskScore > cameras[j].riskScore
                        \/ cameras[i].riskScore = cameras[j].riskScore /\ i < j
        Rank(i) == Cardinality({j \in act : Before(j, i)})
    IN  {cameras[i].id : i \in {j \in act : Rank(j) < MAX_SIMULTANEOUS_STREAMS}}

\* processFrame(cameraId); hit is Math.random() > 0.992, violation the entry
\* of the table that Math.random() picks
ProcessFrame(cameraId, hit, violation) ==
    /\ rev = "B"
    /\ cameraId \in processingQueue
    /\ frameCountRef' = (frameCountRef + 1) % FRAME_SKIP
    /\ IF frameCountRef' = 0 /\ hit
       THEN /\ detections' = PushLog(detections,
                   Detection(cameraId, violation[1], violation[2], now))
            /\ cameras' = MapCamera(cameras, cameraId,
                   [i \in 1..Len(cameras) |->
                       RiskAfterViolationB(cameras[i], violation[2])])
            /\ safetyScore' = SafetyAfterViolationB(safetyScore)
       ELSE UNCHANGED <<detections, cameras, safetyScore>>
    /\ lastOp' = Op("processFrame", cameraId,
                    IF frameCountRef' = 0 /\ hit THEN violation ELSE <<>>)
    /\ UNCHANGED <<rev, aiVars, metrics, now, currentPage, startCalls, liveStreams, schedVars>>

\* processingQueueRef.current as updateProcessingQueue leaves it: the ids of
\* the active cameras by descending riskScore (a stable sort), the first
\* MAX_SIMULTANEOUS_STREAMS of them, in that order
processingQueueRef ==
    LET act == {i \in 1..Len(cameras) : cameras[i].active}
        Before(i, j) == \/ cameras[i].riskScore > cameras[j].riskScore
                        \/ cameras[i].riskScore = cameras[j].riskScore /\ i < j
        Rank(i) == Cardinality({j \in act : Before(j, i)})
        At(k) == CHOOSE i \in act : Rank(i) = k - 1
    IN  [k \in 1..Min(Cardinality(act), MAX_SIMULTANEOUS_STREAMS) |-> cameras[At(k)].id]

\* one call of processFrame(cameraId) within a pass of the animation loop, on
\* the state st the pass has reached: st.count is frameCountRef.current,
\* st.passed the camera that got through the frame-skip gate (0 for none)
ProcessFrameIn(st, cameraId, hit, violation) ==
    LET count == (st.count + 1) % FRAME_SKIP
    IN  IF count # 0 THEN [st EXCEPT !.count = count]
        ELSE IF ~hit THEN [st EXCEPT !.count = count, !.passed = cameraId]
        ELSE [st EXCEPT
                !.count = count,
                !.passed = cameraId,
                !.log = PushLog(@, Detection(cameraId, violation[1], violation[2], now)),
                !.cams = MapCamera(@, cameraId,
                            [i \in 1..Len(@) |-> RiskAfterViolationB(@[i], violation[2])]),
                !.score = SafetyAfterViolationB(@)]

\* processingQueueRef.current.forEach(cameraId => processFrame(cameraId))
RECURSIVE ProcessQueue(_, _, _, _)
ProcessQueue(st, queue, hit, violation) ==
    IF queue = <<>> THEN st
    ELSE ProcessQueue(ProcessFrameIn(st, Head(queue), hit, violation),
                      Tail(queue), hit, violation)

\* one pass of the animation loop (requestAnimationFrame): processFrame for
\* every camera of the queue, in its order; every queued camera has its video
\* and its canvas. hit and violation are what Math.random() gives the camera
\* that gets through the gate.
AnimationFrame(hit, violation) ==
    /\ rev = "B"
    /\ LET st == ProcessQueue([count |-> frameCountRef, passed |-> 0,
                               log |-> detections, cams |-> cameras,
                               score |-> safetyScore],
                              processingQueueRef, hit, violation)
       IN  /\ frameCountRef' = st.count
           /\ detections' = st.log
           /\ cameras' = st.cams
           /\ safetyScore' = st.score
           /\ lastOp' = Op("animationFrame", st.passed,
                           IF hit /\ st.passed # 0 THEN violation ELSE <<>>)
    /\ UNCHANGED <<rev, aiVars, metrics, now, currentPage, startCalls, liveStreams, schedVars>>

\* the decay interval fires (every 2000 ms)
DecayTick ==
    /\ rev = "B"
    /\ cameras' = [i \in 1..Len(cameras) |-> RiskAfterDecay(cameras[i])]
    /\ safetyScore' = SafetyAfterDecay(safetyScore)
    /\ lastOp' = Op("decayTick", 0, 0)
    /\ UNCHANGED <<rev, aiVars, metrics, now, currentPage, startCalls, liveStreams, detections,
                   schedVars, frameCountRef>>

----------------------------------------------------------------------------
(* Revision A: the detection scheduler *)

\* the keys of lastAlertTimeRef: `${cameraId}-${detectionType}` and
\* `${cameraId}-vision`
AlertKinds == {"person", "behavior", "vision"}
AlertKeys == (LocalIds \cup NetworkIds) \X AlertKinds

\* lastAlertTimeRef.current[key] || 0
LastAlert(alerts, cameraId, kind) == alerts[<<cameraId, kind>>]

\* window.setTimeout(runDetection, delay) by the closure of a chain
Timer(chain, sel, delay) ==
    [chain |-> chain, sel |-> sel, due |-> now + delay, delay |-> delay]

\* currentCameras.filter(c => c.active && c.status === 'online')
targetCams ==
    LET Online(c) == c.active /\ c.status = "online"
    IN  SelectSeq(cameras, Online)

\* selectedCameraId ? targetCams.find(c => c.id === selectedCameraId)
\*                    || targetCams[0] : targetCams[0]
TargetCam(sel) ==
    IF sel # 0 /\ HasCamera(targetCams, sel) THEN sel ELSE targetCams[1].id

\* runDetection without the test of isProcessingRef.current at line 134
RunDetectionUnguarded(chain, sel, pending, ready) ==
    IF targetCams = <<>>
    THEN /\ timers' = pending \cup {Timer(chain, sel, IDLE_DELAY)}
         /\ UNCHANGED <<isProcessingRef, detectCalls>>
    ELSE IF ready
    THEN /\ isProcessingRef' = TRUE
         /\ detectCalls' = detectCalls \cup
                {[chain |-> chain, sel |-> sel, target |-> TargetCam(sel)]}
         /\ timers' = pending
    ELSE /\ timers' = pending \cup {Timer(chain, sel, DETECTION_INTERVAL)}
         /\ UNCHANGED <<isProcessingRef, detectCalls>>

\* runDetection whose early return at lines 142-145 arms no timer
RunDetectionIdleStops(chain, sel, pending, ready) ==
    IF isProcessingRef
    THEN /\ timers' = pending \cup {Timer(chain, sel, BUSY_DELAY)}
         /\ UNCHANGED <<isProcessingRef, detectCalls>>
    ELSE IF targetCams = <<>>
    THEN /\ timers' = pending
         /\ UNCHANGED <<isProcessingRef, detectCalls>>
    ELSE IF ready
    THEN /\ isProcessingRef' = TRUE
         /\ detectCalls' = detectCalls \cup
                {[chain |-> chain, sel |-> sel, target |-> TargetCam(sel)]}
         /\ timers' = pending
    ELSE /\ timers' = pending \cup {Timer(chain, sel, DETECTION_INTERVAL)}
         /\ UNCHANGED <<isProcessingRef, detectCalls>>

\* runDetection up to its await, run by the closure (chain, sel), with the
\* timers `pending` left; ready is videoEl && readyState === 4 && !paused of
\* the target. The closure of a chain holds a loaded net.
RunDetection(chain, sel, pending, ready) ==
    IF isProcessingRef
    THEN /\ timers' = pending \cup {Timer(chain, sel, BUSY_DELAY)}
         /\ UNCHANGED <<isProcessingRef, detectCalls>>
    ELSE IF targetCams = <<>>
    THEN /\ timers' = pending \cup {Timer(chain, sel, IDLE_DELAY)}
         /\ UNCHANGED <<isProcessingRef, detectCalls>>
    ELSE IF ready
    THEN /\ isProcessingRef' = TRUE
         /\ detectCalls' = detectCalls \cup
                {[chain |-> chain, sel |-> sel, target |-> TargetCam(sel)]}
         /\ timers' = pending
    ELSE /\ timers' = pending \cup {Timer(chain, sel, DETECTION_INTERVAL)}
         /\ UNCHANGED <<isProcessingRef, detectCalls>>

\* what a step of the scheduler reports: the branch runDetection took
Branch(ready) ==
    IF isProcessingRef THEN "busy"
    ELSE IF targetCams = <<>> THEN "idle"
    ELSE IF ready THEN "detect" ELSE "notReady"

\* cocoSsd.load resolves: setNet(loadedNet), and the effect at line 226 calls
\* runDetection() of the new render
NetLoaded(ready) ==
    /\ rev = "A"
    /\ ~net
    /\ net' = TRUE
    /\ chains' = chains + 1
    /\ RunDetection(chains + 1, selectedCameraId, timers, ready)
    /\ lastOp' = Op("netLoaded", chains + 1, Branch(ready))
    /\ UNCHANGED <<rev, aiVars, metrics, now, cameras, currentPage, startCalls, liveStreams,
                   logVars, selectedCameraId, engine, lastAlertTimeRef,
                   visionCalls, frameCountRef>>

\* onCameraSelect: setSelectedCameraId(id); runDetection gets a new identity
\* and, once the net is loaded, the effect at line 226 calls it again
SelectCamera(id, ready, maxChains) ==
    /\ rev = "A"
    /\ HasCamera(cameras, id)
    /\ id # selectedCameraId
    /\ selectedCameraId' = id
    /\ IF net
       THEN /\ chains < maxChains
            /\ chains' = chains + 1
            /\ RunDetection(chains + 1, id, timers, ready)
       ELSE UNCHANGED <<chains, timers, isProcessingRef, detectCalls>>
    /\ lastOp' = Op("selectCamera", id, IF net THEN Branch(ready) ELSE "noNet")
    /\ UNCHANGED <<rev, aiVars, metrics, now, cameras, currentPage, startCalls, liveStreams,
                   logVars, net, engine, lastAlertTimeRef, visionCalls,
                   frameCountRef>>

\* a timer of a chain fires, no earlier than its delay
TimerFires(timer, ready) ==
    /\ timer \in timers
    /\ now >= timer.due
    /\ RunDetection(timer.chain, timer.sel, timers \ {timer}, ready)
    /\ lastOp' = Op("timerFires", timer.chain, Branch(ready))
    /\ UNCHANGED <<rev, aiVars, metrics, now, cameras, currentPage, startCalls, liveStreams,
                   logVars, selectedCameraId, net, engine, lastAlertTimeRef,
                   chains, visionCalls, frameCountRef>>

\* the earliest instant a pending setTimeout callback may run
nextDue ==
    CHOOSE due \in {timer.due : timer \in timers} :
        \A timer \in timers : due <= timer.due

\* time passes until the earliest pending timer is due, measured from the
\* present instant: the dues come closer by the time that has passed and
\* `now` stands for the present. Fit where no step reads the clock but to
\* arm and fire timers.
TimerComesDue ==
    /\ timers # {}
    /\ nextDue > now
    /\ timers' = {[timer EXCEPT !.due = @ - (nextDue - now)] : timer \in timers}
    /\ lastOp' = Op("advanceTime", 0, nextDue - now)
    /\ UNCHANGED <<rev, aiVars, metrics, now, cameras, currentPage, startCalls, liveStreams,
                   logVars, selectedCameraId, net, engine, isProcessingRef,
                   lastAlertTimeRef, chains, detectCalls, visionCalls,
                   frameCountRef>>

\* the body of the loop without the test of prediction.score at line 157
ProcessPredictionNoThreshold(st, p, target, t) ==
    IF p.class = "person"
       /\ engine
       /\ t - LastAlert(st.alerts, target, "vision") > VISION_COOLDOWN
    THEN [st EXCEPT !.alerts[<<target, "vision">>] = t,
                    !.vision[target] = @ + 1]
    ELSE IF p.class \in {"person", "cell phone"}
    THEN LET type == IF p.class = "person" THEN "person" ELSE "behavior"
             severity == IF p.class = "person" THEN "medium" ELSE "high"
             detection == Detection(target, type, severity, t)
         IN  IF t - LastAlert(st.alerts, target, type) > COOLDOWN
             THEN [st EXCEPT
                     !.alerts[<<target, type>>] = t,
                     !.log = PushLog(@, detection),
                     !.score = SafetyAfterDetectionA(@, detection),
                     !.cams = MapCamera(@, target,
                                 [i \in 1..Len(@) |-> RiskAfterDetectionA(@[i])])]
             ELSE st
    ELSE st

\* the body of the loop over the predictions of net.detect, for one
\* prediction p = [class, score] at time t, on the state st the loop has
\* reached: st.alerts is lastAlertTimeRef.current, st.log the detections,
\* st.score the safetyScore, st.cams the cameras, st.vision the analyzeImage
\* calls in flight
ProcessPrediction(st, p, target, t) ==
    IF p.score < MIN_SCORE THEN st
    ELSE IF p.class = "person"
            /\ engine
            /\ t - LastAlert(st.alerts, target, "vision") > VISION_COOLDOWN
    THEN \* captureAndAnalyze(targetCam.id) starts in the background
         [st EXCEPT !.alerts[<<target, "vision">>] = t,
                    !.vision[target] = @ + 1]
    ELSE IF p.class \in {"person", "cell phone"}
    THEN LET type == IF p.class = "person" THEN "person" ELSE "behavior"
             severity == IF p.class = "person" THEN "medium" ELSE "high"
             detection == Detection(target, type, severity, t)
         IN  IF t - LastAlert(st.alerts, target, type) > COOLDOWN
             THEN [st EXCEPT
                     !.alerts[<<target, type>>] = t,
                     !.log = PushLog(@, detection),
                     !.score = SafetyAfterDetectionA(@, detection),
                     !.cams = MapCamera(@, target,
                                 [i \in 1..Len(@) |-> RiskAfterDetectionA(@[i])])]
             ELSE st
    ELSE st

\* for (const prediction of predictions) { ... }
RECURSIVE ProcessPredictions(_, _, _, _)
ProcessPredictions(st, predictions, target, t) ==
    IF predictions = <<>> THEN st
    ELSE ProcessPredictions(ProcessPrediction(st, Head(predictions), target, t),
                            Tail(predictions), target, t)

\* net.detect resolves with predictions: the rest of the try block, the
\* finally block and the re-arm at line 200
DetectResolves(call, predictions) ==
    /\ call \in detectCalls
    /\ LET st == ProcessPredictions(
                    [alerts |-> lastAlertTimeRef, log |-> detections,
                     score |-> safetyScore, cams |-> cameras,
                     vision |-> visionCalls],
                    predictions, call.target, now)
       IN  /\ lastAlertTimeRef' = st.alerts
           /\ detections' = st.log
           /\ safetyScore' = st.score
           /\ cameras' = st.cams
           /\ visionCalls' = st.vision
    /\ isProcessingRef' = FALSE
    /\ detectCalls' = detectCalls \ {call}
    /\ timers' = timers \cup {Timer(call.chain, call.sel, DETECTION_INTERVAL)}
    /\ lastOp' = Op("detectResolves", call.target, predictions)
    /\ UNCHANGED <<rev, aiVars, metrics, now, currentPage, startCalls, liveStreams,
                   selectedCameraId, net, engine, chains, frameCountRef>>

\* net.detect rejects, without the finally block at line 198: the in-flight
\* flag stays set
DetectRejectsNoFinally(call) ==
    /\ call \in detectCalls
    /\ detectCalls' = detectCalls \ {call}
    /\ timers' = timers \cup {Timer(call.chain, call.sel, DETECTION_INTERVAL)}
    /\ lastOp' = Op("detectRejects", call.target, 0)
    /\ UNCHANGED <<rev, aiVars, metrics, now, cameras, currentPage, startCalls, liveStreams,
                   logVars, selectedCameraId, net, engine, isProcessingRef,
                   lastAlertTimeRef, chains, visionCalls, frameCountRef>>

\* net.detect rejects: catch, finally and the re-arm at line 200
DetectRejects(call) ==
    /\ call \in detectCalls
    /\ isProcessingRef' = FALSE
    /\ detectCalls' = detectCalls \ {call}
    /\ timers' = timers \cup {Timer(call.chain, call.sel, DETECTION_INTERVAL)}
    /\ lastOp' = Op("detectRejects", call.target, 0)
    /\ UNCHANGED <<rev, aiVars, metrics, now, cameras, currentPage, startCalls, liveStreams,
                   logVars, selectedCameraId, net, engine, lastAlertTimeRef,
                   chains, visionCalls, frameCountRef>>

\* cameras.find(c => c.id === selectedCameraId) || cameras[0]
activeCamera ==
    IF HasCamera(cameras, selectedCameraId) THEN selectedCameraId
    ELSE cameras[1].id

\* the operator presses "analyze" in the single view:
\* captureAndAnalyze(activeCamera.id) up to its await; analyzeImage throws at
\* once, into the catch block, when the engine is not loaded
OnAnalyze(maxVision) ==
    /\ rev = "A"
    /\ cameras # <<>>
    /\ visionCalls[activeCamera] < maxVision
    /\ visionCalls' = IF engine
                      THEN [visionCalls EXCEPT ![activeCamera] = @ + 1]
                      ELSE visionCalls
    /\ lastOp' = Op("onAnalyze", activeCamera, engine)
    /\ UNCHANGED <<rev, aiVars, metrics, now, cameras, currentPage, startCalls, liveStreams,
                   logVars, selectedCameraId, net, engine, isProcessingRef,
                   lastAlertTimeRef, chains, timers, detectCalls, frameCountRef>>

\* the detection captureAndAnalyze builds from the analysis text: violation is
\* analysis.toLowerCase().includes('violation'), hazard is ...includes('hazard')
VisionDetection(cameraId, violation, hazard) ==
    Detection(cameraId,
              IF violation THEN "behavior" ELSE "ppe",
              IF hazard THEN "high" ELSE "medium",
              now)

\* localAi.analyzeImage resolves: addDetection of the audit
VisionResolves(cameraId, violation, hazard) ==
    /\ visionCalls[cameraId] > 0
    /\ visionCalls' = [visionCalls EXCEPT ![cameraId] = @ - 1]
    /\ detections' = PushLog(detections, VisionDetection(cameraId, violation, hazard))
    /\ safetyScore' = SafetyAfterDetectionA(safetyScore,
                          VisionDetection(cameraId, violation, hazard))
    /\ lastOp' = Op("visionResolves", cameraId, <<violation, hazard>>)
    /\ UNCHANGED <<rev, aiVars, metrics, now, cameras, currentPage, startCalls, liveStreams,
                   selectedCameraId, net, engine, isProcessingRef,
                   lastAlertTimeRef, chains, timers, detectCalls, frameCountRef>>

\* localAi.analyzeImage rejects: the catch block of captureAndAnalyze
VisionRejects(cameraId) ==
    /\ visionCalls[cameraId] > 0
    /\ visionCalls' = [visionCalls EXCEPT ![cameraId] = @ - 1]
    /\ lastOp' = Op("visionRejects", cameraId, 0)
    /\ UNCHANGED <<rev, aiVars, metrics, now, cameras, currentPage, startCalls, liveStreams,
                   logVars, selectedCameraId, net, engine, isProcessingRef,
                   lastAlertTimeRef, chains, timers, detectCalls, frameCountRef>>

\* useState<OfflineAIState>: the fields the handlers branch on
OfflineAI(isEnabled, isModelLoaded, isLoading) ==
    [isEnabled |-> isEnabled, isModelLoaded |-> isModelLoaded,
     isLoading |-> isLoading]

\* the service and the offlineAI state after construction: no engine, no
\* initialize call awaited
InitAi ==
    /\ isInitializing = FALSE
    /\ initCalls = [creating |-> 0, returned |-> 0]
    /\ offlineAI = OfflineAI(FALSE, FALSE, FALSE)

\* LocalAiService.isReady
isReady == engine

\* toggleOfflineAI(enable): with enable and no engine it sets isLoading and
\* calls localAi.initialize, which returns at once when an engine exists or a
\* creation is in flight and else sets isInitializing and awaits
\* CreateMLCEngine; otherwise it stores enable.  maxCalls bounds the
\* initialize calls awaited at once.
ToggleOfflineAI(enable, maxCalls) ==
    /\ rev = "A"
    /\ IF enable /\ ~isReady
       THEN /\ initCalls.creating + initCalls.returned < maxCalls
            /\ offlineAI' = [offlineAI EXCEPT !.isLoading = TRUE]
            /\ IF engine \/ isInitializing
               THEN /\ initCalls' = [initCalls EXCEPT !.returned = @ + 1]
                    /\ UNCHANGED isInitializing
               ELSE /\ initCalls' = [initCalls EXCEPT !.creating = @ + 1]
                    /\ isInitializing' = TRUE
       ELSE /\ offlineAI' = [offlineAI EXCEPT !.isEnabled = enable]
            /\ UNCHANGED <<isInitializing, initCalls>>
    /\ lastOp' = Op("toggleOfflineAI", 0, enable)
    /\ UNCHANGED <<rev, metrics, now, cameras, currentPage, startCalls, liveStreams,
                   logVars, schedVars, frameCountRef>>

\* an initialize call that returned at once resolves: toggleOfflineAI goes on
\* after its await and marks the model loaded
InitializeReturns ==
    /\ initCalls.returned > 0
    /\ initCalls' = [initCalls EXCEPT !.returned = @ - 1]
    /\ offlineAI' = [offlineAI EXCEPT !.isModelLoaded = TRUE,
                                      !.isEnabled = TRUE, !.isLoading = FALSE]
    /\ lastOp' = Op("initializeReturns", 0, 0)
    /\ UNCHANGED <<rev, metrics, now, cameras, currentPage, startCalls, liveStreams,
                   logVars, schedVars, frameCountRef, isInitializing>>

\* CreateMLCEngine resolves: initialize stores the engine, its finally block
\* clears isInitializing, and toggleOfflineAI marks the model loaded
CreateResolves ==
    /\ initCalls.creating > 0
    /\ engine' = TRUE
    /\ isInitializing' = FALSE
    /\ initCalls' = [initCalls EXCEPT !.creating = @ - 1]
    /\ offlineAI' = [offlineAI EXCEPT !.isModelLoaded = TRUE,
                                      !.isEnabled = TRUE, !.isLoading = FALSE]
    /\ lastOp' = Op("createResolves", 0, 0)
    /\ UNCHANGED <<rev, metrics, now, cameras, currentPage, startCalls, liveStreams,
                   logVars, selectedCameraId, net, isProcessingRef,
                   lastAlertTimeRef, chains, timers, detectCalls, visionCalls,
                   frameCountRef>>

\* CreateMLCEngine rejects: initialize rethrows after its finally block
\* cleared isInitializing, and the catch block of toggleOfflineAI clears
\* isLoading
CreateRejects ==
    /\ initCalls.creating > 0
    /\ isInitializing' = FALSE
    /\ initCalls' = [initCalls EXCEPT !.creating = @ - 1]
    /\ offlineAI' = [offlineAI EXCEPT !.isLoading = FALSE]
    /\ lastOp' = Op("createRejects", 0, 0)
    /\ UNCHANGED <<rev, metrics, now, cameras, currentPage, startCalls, liveStreams,
                   logVars, schedVars, frameCountRef>>

\* toggleOfflineAI(true) on a service at rest whose engine creation succeeds,
\* in one step: the engine is created and the model marked loaded
LocalAiLoaded ==
    /\ rev = "A"
    /\ ~engine
    /\ ~isInitializing
    /\ engine' = TRUE
    /\ offlineAI' = [offlineAI EXCEPT !.isModelLoaded = TRUE,
                                      !.isEnabled = TRUE, !.isLoading = FALSE]
    /\ lastOp' = Op("localAiLoaded", 0, 0)
    /\ UNCHANGED <<isInitializing, initCalls>>
    /\ UNCHANGED <<rev, metrics, now, cameras, currentPage, startCalls, liveStreams,
                   logVars, selectedCameraId, net, isProcessingRef,
                   lastAlertTimeRef, chains, timers, detectCalls, visionCalls,
                   frameCountRef>>

----------------------------------------------------------------------------
(* Camera registry edits of CameraSetupModal (revision A) and persistence *)

\* addLocalDevice: onUpdateCameras([newCam, ...cameras]); the operator adds
\* each device once
AddLocalDevice(device) ==
    /\ rev = "A"
    /\ device \in LocalIds
    /\ ~HasCamera(cameras, device)
    /\ cameras' = <<Camera(device, "local", FALSE, "offline")>> \o cameras
    /\ lastOp' = Op("addLocalDevice", device, 0)
    /\ UNCHANGED <<rev, aiVars, metrics, now, currentPage, startCalls, liveStreams>>
    /\ UNCHANGED engineVars

\* the record addIpCamera builds: active: true, status: 'online'
NewIpCamera(id) == Camera(id, "network", TRUE, "online")

\* addIpCamera: the id is `ip-${Date.now()}`, a fresh one
AddIpCamera(id) ==
    /\ rev = "A"
    /\ id \in NetworkIds
    /\ ~HasCamera(cameras, id)
    /\ cameras' = <<NewIpCamera(id)>> \o cameras
    /\ lastOp' = Op("addIpCamera", id, 0)
    /\ UNCHANGED <<rev, aiVars, metrics, now, currentPage, startCalls, liveStreams>>
    /\ UNCHANGED engineVars

\* removeCamera: onUpdateCameras(cameras.filter(c => c.id !== id))
RemoveCamera(id) ==
    /\ rev = "A"
    /\ HasCamera(cameras, id)
    /\ LET Keep(c) == c.id # id
       IN  cameras' = SelectSeq(cameras, Keep)
    /\ lastOp' = Op("removeCamera", id, 0)
    /\ UNCHANGED <<rev, aiVars, metrics, now, currentPage, startCalls, liveStreams>>
    /\ UNCHANGED engineVars

\* what the storage effect writes: const { stream, active, ...rest } = c
PersistCamera(c) ==
    [id |-> c.id, connectionType |-> c.connectionType, status |-> c.status,
     riskScore |-> c.riskScore]

\* the initializer without status: 'offline': the saved status is kept
LoadCameraKeepsStatus(saved) ==
    [id |-> saved.id, connectionType |-> saved.connectionType,
     riskScore |-> saved.riskScore,
     active |-> FALSE, stream |-> NoStream, status |-> saved.status]

\* what the useState initializer makes of a saved record:
\* { ...c, active: false, stream: undefined, status: 'offline' }
LoadCamera(saved) ==
    [id |-> saved.id, connectionType |-> saved.connectionType,
     riskScore |-> saved.riskScore,
     active |-> FALSE, stream |-> NoStream, status |-> "offline"]

\* localStorage[STORAGE_KEYS.CAMERAS] after the storage effect has run
StoredCameras == [i \in 1..Len(cameras) |-> PersistCamera(cameras[i])]

\* the page is reloaded (revision A): the component mounts again from storage;
\* calls in flight are gone with the page, which also ends its captures
Reload ==
    /\ rev = "A"
    /\ cameras' = [i \in 1..Len(StoredCameras) |-> LoadCamera(StoredCameras[i])]
    /\ currentPage' = 0
    /\ startCalls' = {}
    /\ liveStreams' = {}
    /\ selectedCameraId' = 0
    /\ net' = FALSE
    /\ engine' = FALSE
    /\ isProcessingRef' = FALSE
    /\ lastAlertTimeRef' = [key \in AlertKeys |-> 0]
    /\ chains' = 0
    /\ timers' = {}
    /\ detectCalls' = {}
    /\ visionCalls' = [id \in LocalIds \cup NetworkIds |-> 0]
    /\ isInitializing' = FALSE
    /\ initCalls' = [creating |-> 0, returned |-> 0]
    /\ offlineAI' = OfflineAI(FALSE, FALSE, FALSE)
    /\ metrics' = <<>>
    /\ lastOp' = Op("reload", 0, ActiveIds(cameras))
    /\ UNCHANGED <<rev, now, logVars, frameCountRef>>

----------------------------------------------------------------------------
(* Specification of the camera lifecycle, both revisions, few cameras *)

\* the state of a fresh mount, but for the revision and the cameras
InitMount ==
    /\ now = StartTime
    /\ currentPage = 0
    /\ startCalls = {}
    /\ liveStreams = {}
    /\ detections = <<>>
    /\ safetyScore = IF rev = "A" THEN BaselineSafetyScore ELSE InitialSafetyScoreB
    /\ selectedCameraId = 0
    /\ net = FALSE
    /\ engine = FALSE
    /\ InitAi
    /\ metrics = <<>>
    /\ isProcessingRef = FALSE
    /\ lastAlertTimeRef = [key \in AlertKeys |-> 0]
    /\ chains = 0
    /\ timers = {}
    /\ detectCalls = {}
    /\ visionCalls = [id \in LocalIds \cup NetworkIds |-> 0]
    /\ frameCountRef = 0
    /\ lastOp = Op("mount", 0, 0)

InitLife ==
    /\ rev \in {"A", "B"}
    /\ cameras = IF rev = "A" THEN <<>> ELSE InitialCamerasB(NumCamsLife)
    /\ InitMount

LifeIds == IF rev = "A" THEN LocalIds \cup NetworkIds ELSE 1..NumCamsLife

NextLife ==
    \/ \E id \in LifeIds : StartCamera(id, MaxCallsLife)
    \/ StartAllCamerasInPage(MaxCallsLife)
    \/ \E call \in startCalls : GetUserMediaResolves(call)
    \/ \E call \in startCalls, err \in MediaErrors : GetUserMediaRejects(call, err)
    \/ \E id \in LifeIds : StopCamera(id)
    \/ StopAllCameras
    \/ \E device \in LocalIds : AddLocalDevice(device)
    \/ \E id \in NetworkIds : AddIpCamera(id)
    \/ \E id \in LifeIds : RemoveCamera(id)
    \/ Reload

SpecLife == InitLife /\ [][NextLife]_vars

----------------------------------------------------------------------------
(* Specifications of the stream cap: revision B with more cameras than the  *)
(* cap, so that a second page exists                                        *)

InitCap ==
    /\ rev = "B"
    /\ cameras = InitialCamerasB(NumCamsCap)
    /\ InitMount

\* one operator pressing "start all" on the first page, every acquisition
\* succeeding
NextBulk ==
    \/ StartAllCamerasInPage(MaxCallsCap)
    \/ \E call \in startCalls : GetUserMediaResolves(call)

SpecBulk == InitCap /\ [][NextBulk]_vars

\* the same with page changes, so that bulk starts of two pages interleave
NextCap ==
    \/ StartAllCamerasInPage(MaxCallsCap)
    \/ \E page \in 0..1 : SetCurrentPage(page)
    \/ \E call \in startCalls : GetUserMediaResolves(call)

SpecCap == InitCap /\ [][NextCap]_vars

----------------------------------------------------------------------------
(* Specification of the detection scheduler of revision A: two running      *)
(* cameras are stopped and removed while timers fire and net.detect is      *)
(* pending, and a camera selection re-runs the effect that calls            *)
(* runDetection                                                             *)

\* what net.detect may resolve with: class and score (in percent)
Prediction(class, score) == [class |-> class, score |-> score]

SchedIds == LocalIds \cup NetworkIds

\* the detector outcomes the scheduler specification draws from
SchedPredictions == { <<>>, <<Prediction("person", 90)>> }

\* the stream the local camera of InitSched holds
SchedStream == <<1, 1>>

\* revision A after the operator has added the local device and then an IP
\* camera in the setup modal, and startCamera of the local device has
\* succeeded (AddLocalDevice, AddIpCamera, StartCamera, GetUserMediaResolves);
\* the detector is not loaded yet
InitSched ==
    /\ rev = "A"
    /\ cameras = <<NewIpCamera(2),
                   StartSucceededA(Camera(1, "local", FALSE, "offline"), SchedStream)>>
    /\ now = StartTime
    /\ currentPage = 0
    /\ startCalls = {}
    /\ liveStreams = {SchedStream}
    /\ detections = <<>>
    /\ safetyScore = BaselineSafetyScore
    /\ selectedCameraId = 0
    /\ net = FALSE
    /\ engine = FALSE
    /\ InitAi
    /\ metrics = <<>>
    /\ isProcessingRef = FALSE
    /\ lastAlertTimeRef = [key \in AlertKeys |-> 0]
    /\ chains = 0
    /\ timers = {}
    /\ detectCalls = {}
    /\ visionCalls = [id \in SchedIds |-> 0]
    /\ frameCountRef = 0
    /\ lastOp = Op("mount", 0, 0)

NextSched ==
    \/ \E id \in SchedIds : RemoveCamera(id)
    \/ \E id \in SchedIds : StopCamera(id)
    \/ \E ready \in BOOLEAN : NetLoaded(ready)
    \/ \E id \in SchedIds, ready \in BOOLEAN : SelectCamera(id, ready, MaxChains)
    \/ \E timer \in timers, ready \in BOOLEAN : TimerFires(timer, ready)
    \/ \E call \in detectCalls, predictions \in SchedPredictions :
          DetectResolves(call, predictions)
    \/ \E call \in detectCalls : DetectRejects(call)
    \/ AdvanceTime(BUSY_DELAY, StartTime + MaxTicksSched * BUSY_DELAY)

SpecSched == InitSched /\ [][NextSched]_vars

----------------------------------------------------------------------------
(* Specification of the scheduler's progress (revision A): one local camera *)
(* that runs, the detector finds nothing, timers fire when they are due and *)
(* every call of the detector settles                                       *)

\* the cameras the specification may stop, remove or select
FairIds == LocalIds

\* the detector finds nothing: no step takes a timestamp
FairPredictions == { <<>> }

\* revision A after the operator has added the local device and startCamera
\* has succeeded (AddLocalDevice, StartCamera, GetUserMediaResolves)
InitFair ==
    /\ rev = "A"
    /\ cameras = <<StartSucceededA(Camera(1, "local", FALSE, "offline"), SchedStream)>>
    /\ now = StartTime
    /\ currentPage = 0
    /\ startCalls = {}
    /\ liveStreams = {SchedStream}
    /\ detections = <<>>
    /\ safetyScore = BaselineSafetyScore
    /\ selectedCameraId = 0
    /\ net = FALSE
    /\ engine = FALSE
    /\ InitAi
    /\ metrics = <<>>
    /\ isProcessingRef = FALSE
    /\ lastAlertTimeRef = [key \in AlertKeys |-> 0]
    /\ chains = 0
    /\ timers = {}
    /\ detectCalls = {}
    /\ visionCalls = [id \in SchedIds |-> 0]
    /\ frameCountRef = 0
    /\ lastOp = Op("mount", 0, 0)

\* what every step of the scheduler changes: a timer or a call in flight
armed == <<timers, detectCalls>>

\* runDetection is called by a timer
RunsCycle == \E timer \in timers, ready \in BOOLEAN : TimerFires(timer, ready)

\* net.detect settles
DetectSettles ==
    \E call \in detectCalls :
        \/ \E predictions \in FairPredictions : DetectResolves(call, predictions)
        \/ DetectRejects(call)

NextFair ==
    \/ \E id \in FairIds : RemoveCamera(id)
    \/ \E id \in FairIds : StopCamera(id)
    \/ \E ready \in BOOLEAN : NetLoaded(ready)
    \/ \E id \in FairIds, ready \in BOOLEAN : SelectCamera(id, ready, MaxChains)
    \/ RunsCycle
    \/ DetectSettles
    \/ TimerComesDue

\* the browser runs a timer callback once it is due, time passes, and the
\* detector settles every call
SpecFair ==
    /\ InitFair
    /\ [][NextFair]_vars
    /\ WF_armed(RunsCycle)
    /\ WF_armed(DetectSettles)
    /\ WF_armed(TimerComesDue)

----------------------------------------------------------------------------
(* Specification of the log and the scores, both revisions: revision A with *)
(* one IP camera, the scheduler, the vision audit and clearLogs; revision B *)
(* with one camera, processFrame and the decay interval                     *)

\* the answer of the vision model the specification draws: does the text
\* include 'violation', does it include 'hazard'
VisionAnswers == { <<TRUE, TRUE>> }

\* the detector outcomes and the violations the specification draws from: a
\* person below the threshold, a person with a cell phone; a critical and a
\* medium violation
ScorePredictions ==
    { <<Prediction("person", 50)>>,
      <<Prediction("person", 90), Prediction("cell phone", 90)>> }

ScoreViolations == { <<"fall", "critical">>, <<"ppe", "medium">> }

\* the stream the camera of revision B holds in InitScore
ScoreStream == <<1, 1>>

\* revision A after the operator has added an IP camera in the setup modal
\* (AddIpCamera), or revision B after startCamera of its camera has succeeded
\* (StartCamera, GetUserMediaResolves); no detection has been made yet
InitScore ==
    /\ rev \in {"A", "B"}
    /\ cameras = IF rev = "A"
                 THEN <<NewIpCamera(2)>>
                 ELSE <<StartSucceededB(InitialCamerasB(1)[1], ScoreStream)>>
    /\ liveStreams = IF rev = "A" THEN {} ELSE {ScoreStream}
    /\ now = StartTime
    /\ currentPage = 0
    /\ startCalls = {}
    /\ detections = <<>>
    /\ safetyScore = IF rev = "A" THEN BaselineSafetyScore ELSE InitialSafetyScoreB
    /\ selectedCameraId = 0
    /\ net = FALSE
    /\ engine = FALSE
    /\ InitAi
    /\ metrics = <<>>
    /\ isProcessingRef = FALSE
    /\ lastAlertTimeRef = [key \in AlertKeys |-> 0]
    /\ chains = 0
    /\ timers = {}
    /\ detectCalls = {}
    /\ visionCalls = [id \in LocalIds \cup NetworkIds |-> 0]
    /\ frameCountRef = 0
    /\ lastOp = Op("mount", 0, 0)

ScoreIds == IdsOf(cameras)

NextScore ==
    \/ \E ready \in BOOLEAN : NetLoaded(ready)
    \/ \E timer \in timers, ready \in BOOLEAN : TimerFires(timer, ready)
    \/ \E call \in detectCalls, predictions \in ScorePredictions :
          DetectResolves(call, predictions)
    \/ LocalAiLoaded
    \/ OnAnalyze(MaxVision)
    \/ \E id \in ScoreIds, answer \in VisionAnswers :
          VisionResolves(id, answer[1], answer[2])
    \/ \E confirmed \in BOOLEAN : ClearLogs(confirmed)
    \* the clock advances while a timer of the scheduler is pending, by one
    \* cooldown and one detection interval at a time
    \/ /\ timers # {}
       /\ AdvanceTime(COOLDOWN + DETECTION_INTERVAL,
                      StartTime + MaxTicksScore * (COOLDOWN + DETECTION_INTERVAL))
    \/ \E id \in ScoreIds, hit \in BOOLEAN, violation \in ScoreViolations :
          ProcessFrame(id, hit, violation)
    \/ DecayTick

SpecScore == InitScore /\ [][NextScore]_vars

----------------------------------------------------------------------------
(* Specification of the scheduler with a detector that may hang (revision   *)
(* A): two cameras active and online, timers fire when they are due, and a  *)
(* call of the detector settles late or never; the frame of the target is   *)
(* always ready                                                             *)

\* runDetection is called by a timer and finds the frame of its target ready
RunsCycleReady == \E timer \in timers : TimerFires(timer, TRUE)

NextHang ==
    \/ \E id \in SchedIds : RemoveCamera(id)
    \/ \E id \in SchedIds : StopCamera(id)
    \/ NetLoaded(TRUE)
    \/ \E id \in SchedIds : SelectCamera(id, TRUE, MaxChains)
    \/ RunsCycleReady
    \/ DetectSettles
    \/ TimerComesDue

\* the browser runs a timer callback once it is due and time passes; nothing
\* makes net.detect settle
SpecHang ==
    /\ InitSched
    /\ [][NextHang]_vars
    /\ WF_armed(RunsCycleReady)
    /\ WF_armed(TimerComesDue)

----------------------------------------------------------------------------
(* Specification of the filters of runDetection (revision A): one camera,   *)
(* local or IP, predictions on both sides of the threshold, and a clock     *)
(* that moves in steps shorter than the cooldown                            *)

\* the detector outcomes the specification draws: each class just below the
\* threshold, at it and above it, and both classes below it in one result
CoolPredictions ==
    { <<Prediction("person", MIN_SCORE - 1)>>,
      <<Prediction("cell phone", MIN_SCORE - 1)>>,
      <<Prediction("person", MIN_SCORE - 1), Prediction("cell phone", MIN_SCORE - 1)>>,
      <<Prediction("person", MIN_SCORE)>>,
      <<Prediction("cell phone", 90)>> }

\* the step of the clock: a cycle later than half a cooldown
CoolStep == COOLDOWN \div 2 + DETECTION_INTERVAL

\* revision A with one camera active and online: the IP camera as the setup
\* modal adds it, or the local device added and started
InitCool ==
    /\ rev = "A"
    /\ \/ /\ cameras = <<NewIpCamera(2)>>
          /\ liveStreams = {}
       \/ /\ cameras = <<StartSucceededA(Camera(1, "local", FALSE, "offline"), SchedStream)>>
          /\ liveStreams = {SchedStream}
    /\ now = StartTime
    /\ currentPage = 0
    /\ startCalls = {}
    /\ detections = <<>>
    /\ safetyScore = BaselineSafetyScore
    /\ selectedCameraId = 0
    /\ net = FALSE
    /\ engine = FALSE
    /\ InitAi
    /\ metrics = <<>>
    /\ isProcessingRef = FALSE
    /\ lastAlertTimeRef = [key \in AlertKeys |-> 0]
    /\ chains = 0
    /\ timers = {}
    /\ detectCalls = {}
    /\ visionCalls = [id \in LocalIds \cup NetworkIds |-> 0]
    /\ frameCountRef = 0
    /\ lastOp = Op("mount", 0, 0)

NextCool ==
    \/ \E ready \in BOOLEAN : NetLoaded(ready)
    \/ \E timer \in timers, ready \in BOOLEAN : TimerFires(timer, ready)
    \/ \E call \in detectCalls, predictions \in CoolPredictions :
          DetectResolves(call, predictions)
    \/ LocalAiLoaded
    \/ /\ timers # {}
       /\ AdvanceTime(CoolStep, StartTime + MaxTicksCool * CoolStep)

SpecCool == InitCool /\ [][NextCool]_vars

----------------------------------------------------------------------------
(* Specification of the edge of the cooldown window (revision A): one       *)
(* camera, predictions above the threshold, and a clock that moves by half  *)
(* a cooldown, so that a cycle can come exactly one window after an entry   *)

\* the detector outcomes the specification draws
EdgePredictions ==
    { <<Prediction("person", 90)>>, <<Prediction("cell phone", 90)>> }

\* the step of the clock: half a cooldown window
EdgeStep == COOLDOWN \div 2

NextEdge ==
    \/ \E ready \in BOOLEAN : NetLoaded(ready)
    \/ \E timer \in timers, ready \in BOOLEAN : TimerFires(timer, ready)
    \/ \E call \in detectCalls, predictions \in EdgePredictions :
          DetectResolves(call, predictions)
    \/ /\ timers # {}
       /\ AdvanceTime(EdgeStep, StartTime + MaxTicksEdge * EdgeStep)

SpecEdge == InitCool /\ [][NextEdge]_vars

----------------------------------------------------------------------------
(* Specification of the decay (revision B): one running camera, frames that *)
(* hit until the log is full, and a decay interval that keeps firing        *)

\* revision B after mount, its one camera started
InitDecay ==
    /\ rev = "B"
    /\ InitScore

\* the violation the specification draws
DecayViolations == { <<"fall", "critical">> }

NextDecay ==
    \/ \E id \in ScoreIds, hit \in BOOLEAN, violation \in DecayViolations :
          /\ hit => Len(detections) < MAX_LOGS
          /\ ProcessFrame(id, hit, violation)
    \/ DecayTick

\* setInterval(..., 2000) keeps firing
SpecDecay ==
    /\ InitDecay
    /\ [][NextDecay]_vars
    /\ WF_vars(DecayTick)

----------------------------------------------------------------------------
(* Specification of the animation loop (revision B): one to MaxQueue        *)
(* cameras, all started, and frames that hit until the log is full          *)

\* revision B with its first n cameras started, n from 1 to MaxQueue
InitLoop ==
    /\ rev = "B"
    /\ \E n \in 1..MaxQueue :
          /\ cameras = [i \in 1..n |-> StartSucceededB(InitialCamerasB(n)[i], <<i, 1>>)]
          /\ liveStreams = {<<i, 1>> : i \in 1..n}
    /\ now = StartTime
    /\ currentPage = 0
    /\ startCalls = {}
    /\ detections = <<>>
    /\ safetyScore = InitialSafetyScoreB
    /\ selectedCameraId = 0
    /\ net = FALSE
    /\ engine = FALSE
    /\ InitAi
    /\ metrics = <<>>
    /\ isProcessingRef = FALSE
    /\ lastAlertTimeRef = [key \in AlertKeys |-> 0]
    /\ chains = 0
    /\ timers = {}
    /\ detectCalls = {}
    /\ visionCalls = [id \in LocalIds \cup NetworkIds |-> 0]
    /\ frameCountRef = 0
    /\ lastOp = Op("mount", 0, 0)

\* requestAnimationFrame runs the loop
LoopRuns ==
    \E hit \in BOOLEAN, violation \in DecayViolations :
        /\ hit => Len(detections) < MAX_LOGS
        /\ AnimationFrame(hit, violation)

NextLoop == LoopRuns

\* the browser keeps calling the loop
SpecLoop ==
    /\ InitLoop
    /\ [][NextLoop]_vars
    /\ WF_vars(LoopRuns)

----------------------------------------------------------------------------
(* Specification of the offline AI service (revision A): the handlers of    *)
(* CameraSetupModal, with toggleOfflineAI invoked at any time and engine     *)
(* creations that succeed or fail                                            *)

InitAiService ==
    /\ rev = "A"
    /\ cameras = <<>>
    /\ InitMount

NextAiService ==
    \/ \E device \in LocalIds : AddLocalDevice(device)
    \/ \E id \in NetworkIds : AddIpCamera(id)
    \/ \E id \in LocalIds \cup NetworkIds : RemoveCamera(id)
    \/ \E enable \in BOOLEAN : ToggleOfflineAI(enable, MaxInitCalls)
    \/ InitializeReturns
    \/ CreateResolves
    \/ CreateRejects

SpecAiService == InitAiService /\ [][NextAiService]_vars

----------------------------------------------------------------------------
(* PerformanceMonitor (utils/performanceMonitor.ts) and its specification:   *)
(* the two callers of recordMetric, with a clock                             *)

\* a field a Partial<PerformanceMetrics> does not carry
Undefined == -1

\* Partial<PerformanceMetrics> as the callers build it (no caller passes a
\* timestamp)
PartialMetric(memoryUsage, cpuUsage, fps) ==
    [memoryUsage |-> memoryUsage, cpuUsage |-> cpuUsage, fps |-> fps]

\* what measureFPS and checkMemory can measure
FpsValues == {15, 60}
MemoryValues == {300, 900}

\* recordMetric with this.metrics.pop() in place of shift(): the entry just
\* pushed is the one evicted
recordMetricEvictsNewest(history, metric, time) ==
    LET latest == IF Len(history) > 0
                  THEN history[Len(history)]
                  ELSE [memoryUsage |-> 0, cpuUsage |-> 0, fps |-> 0,
                        timestamp |-> time]
        Coalesce(value, other) == IF value # Undefined THEN value ELSE other
        newMetric == [memoryUsage |-> Coalesce(metric.memoryUsage, latest.memoryUsage),
                      cpuUsage |-> Coalesce(metric.cpuUsage, latest.cpuUsage),
                      fps |-> Coalesce(metric.fps, latest.fps),
                      timestamp |-> time]
        pushed == Append(history, newMetric)
    IN  IF Len(pushed) > maxMetrics
        THEN SubSeq(pushed, 1, Len(pushed) - 1)
        ELSE pushed

\* recordMetric(metric) at Date.now() = time: the fields the metric lacks
\* come from the latest entry (zeros when there is none), the entry is
\* pushed, and shift() drops the first entry once the history exceeds
\* maxMetrics
recordMetric(history, metric, time) ==
    LET latest == IF Len(history) > 0
                  THEN history[Len(history)]
                  ELSE [memoryUsage |-> 0, cpuUsage |-> 0, fps |-> 0,
                        timestamp |-> time]
        Coalesce(value, other) == IF value # Undefined THEN value ELSE other
        newMetric == [memoryUsage |-> Coalesce(metric.memoryUsage, latest.memoryUsage),
                      cpuUsage |-> Coalesce(metric.cpuUsage, latest.cpuUsage),
                      fps |-> Coalesce(metric.fps, latest.fps),
                      timestamp |-> time]
        pushed == Append(history, newMetric)
    IN  IF Len(pushed) > maxMetrics
        THEN Tail(pushed)
        ELSE pushed

\* measureFPS in a frame where a second has elapsed:
\* this.recordMetric({ fps })
MeasureFPS(fps) ==
    /\ metrics' = recordMetric(metrics, PartialMetric(Undefined, Undefined, fps), now)
    /\ lastOp' = Op("measureFPS", 0, PartialMetric(Undefined, Undefined, fps))
    /\ UNCHANGED <<rev, aiVars, now, cameras, currentPage, startCalls,
                   liveStreams, engineVars>>

\* checkMemory where performance.memory exists:
\* this.recordMetric({ memoryUsage: usedMB })
CheckMemory(usedMB) ==
    /\ metrics' = recordMetric(metrics, PartialMetric(usedMB, Undefined, Undefined), now)
    /\ lastOp' = Op("checkMemory", 0, PartialMetric(usedMB, Undefined, Undefined))
    /\ UNCHANGED <<rev, aiVars, now, cameras, currentPage, startCalls,
                   liveStreams, engineVars>>

\* a second passes
SecondPasses(maxTicks) ==
    /\ now < StartTime + maxTicks * 1000
    /\ now' = now + 1000
    /\ lastOp' = Op("secondPasses", 0, 0)
    /\ UNCHANGED <<rev, aiVars, metrics, cameras, currentPage, startCalls,
                   liveStreams, engineVars>>

InitMonitor ==
    /\ rev \in {"A", "B"}
    /\ cameras = IF rev = "A" THEN <<>> ELSE InitialCamerasB(NumCamsLife)
    /\ InitMount

NextMonitor ==
    \/ \E fps \in FpsValues : MeasureFPS(fps)
    \/ \E usedMB \in MemoryValues : CheckMemory(usedMB)
    \/ SecondPasses(MaxTicksMonitor)

SpecMonitor == InitMonitor /\ [][NextMonitor]_vars

----------------------------------------------------------------------------
(* Claims on the log and the scores *)

\* C1: after any sequence of accepted detections, decay ticks and clearLogs
\* from the initial scores, the riskScore of every camera and every field of
\* the SafetyScore lie within [0, 100].
C1_ScoresInRange ==
    /\ \A i \in 1..Len(cameras) : cameras[i].riskScore \in 0..100
    /\ \A field \in {"overall", "ppe", "behavior", "environment"} :
          safetyScore[field] \in Pts(0)..Pts(100)

\* a detection has met the ceiling of riskScore after decay ticks had met the
\* ceiling of the overall score
C1_Witness ==
    /\ lastOp.op = "processFrame"
    /\ lastOp.arg # <<>>
    /\ \E i \in 1..Len(cameras) : cameras[i].riskScore = 100
    /\ safetyScore.overall = Pts(100) - Pts(1)

\* C2: the log holds no two entries of one camera and one category whose
\* timestamps are less than the cooldown (10000 ms) apart, whichever path
\* added them. captureAndAnalyze and processFrame call addDetection without
\* reading lastAlertTimeRef.
C2_CooldownBetweenEntries ==
    \A i, j \in 1..Len(detections) :
        (/\ i < j
         /\ detections[i].cameraId = detections[j].cameraId
         /\ detections[i].type = detections[j].type)
        => detections[i].timestamp - detections[j].timestamp >= COOLDOWN

\* C3: the log never holds more than MAX_LOGS entries; one addDetection puts
\* its entry at the head, keeps the entries it found in their order behind
\* it, and when the log was full drops the last of them only. A detector
\* result adds one entry for each prediction it accepts, in the same way.
C3_LogKeepsNewest ==
    /\ [](Len(detections) <= MAX_LOGS)
    /\ [][LET added(k) ==
                 /\ Len(detections') = Min(Len(detections) + k, MAX_LOGS)
                 /\ \A i \in (k + 1)..Len(detections') :
                       detections'[i] = detections[i - k]
          IN  /\ (\/ lastOp'.op = "visionResolves"
                  \/ lastOp'.op = "processFrame" /\ lastOp'.arg # <<>>)
                 => /\ added(1)
                    /\ detections'[1].cameraId = lastOp'.cam
                    /\ detections'[1].timestamp = now
              /\ lastOp'.op = "detectResolves"
                 => \E k \in 0..Len(lastOp'.arg) : added(k)]_vars

\* an audit has been added to a full log: the overall score has lost more
\* than MAX_LOGS detections can take since the last clearLogs
C3_Witness ==
    /\ lastOp.op = "visionResolves"
    /\ Len(detections) = MAX_LOGS
    /\ safetyScore.overall < Pts(100) - MAX_LOGS * Pts(5)

\* C19: a confirmed clearLogs leaves the log empty and every field of the
\* safety score (overall, ppe, behavior, environment) at 100, whatever they
\* were; a clearLogs that is not confirmed changes nothing, so in revision A
\* the log is emptied and a field of the safety score rises in a confirmed
\* clearLogs only.
C19_ClearResetsBaseline ==
    /\ [][lastOp'.op = "clearLogs"
            => /\ detections' = <<>>
               /\ \A field \in {"overall", "ppe", "behavior", "environment"} :
                     safetyScore'[field] = Pts(100)]_vars
    /\ [][(/\ rev = "A"
           /\ \/ detections # <<>> /\ detections' = <<>>
              \/ \E field \in DOMAIN safetyScore :
                    safetyScore'[field] > safetyScore[field])
            => lastOp'.op = "clearLogs" /\ lastOp'.arg = TRUE]_vars

\* the log was cleared after the scheduler had logged a detection, which
\* raised a riskScore and lowered the scores
C19_Witness ==
    /\ lastOp.op = "clearLogs"
    /\ detections = <<>>
    /\ safetyScore = BaselineSafetyScore
    /\ \E i \in 1..Len(cameras) : cameras[i].riskScore > 0

\* C20: the log is strictly ordered most recent first: of any two adjacent
\* entries the one nearer the head has the strictly greater timestamp. The
\* entries one scheduler cycle accepts share the Date.now() taken at line 154.
C20_LogStrictlyOrdered ==
    \A i \in 1..(Len(detections) - 1) :
        detections[i].timestamp > detections[i + 1].timestamp

\* C24: a decay tick that finds every camera's riskScore at 0 updates
\* nothing: the camera records and the safety score are what they were.
C24_DecaySkipsAtRest ==
    [][(/\ lastOp'.op = "decayTick"
        /\ \A i \in 1..Len(cameras) : cameras[i].riskScore = 0)
          => UNCHANGED <<cameras, safetyScore>>]_vars

\* every riskScore is 0 and every field of the safety score is 100
Converged ==
    /\ \A i \in 1..Len(cameras) : cameras[i].riskScore = 0
    /\ safetyScore = BaselineSafetyScore

\* C13: a decay tick raises no riskScore and lowers no field of the safety
\* score, and keeps them within 0..100; and in a run where decay ticks keep
\* occurring and from some point on no detection is accepted, every riskScore
\* reaches 0 and every field of the safety score (overall, ppe, behavior,
\* environment) reaches 100.
C13_DecayConverges ==
    /\ [][lastOp'.op = "decayTick"
            => /\ \A i \in 1..Len(cameras) :
                     /\ cameras'[i].riskScore <= cameras[i].riskScore
                     /\ cameras'[i].riskScore >= 0
               /\ \A field \in DOMAIN safetyScore :
                     /\ safetyScore'[field] >= safetyScore[field]
                     /\ safetyScore'[field] <= Pts(100)]_vars
    /\ (<>[][detections' = detections]_vars => <>[]Converged)

\* a step has put a new entry at the head of the log
Appended ==
    \/ lastOp'.op = "visionResolves"
    \/ lastOp'.op = "processFrame" /\ lastOp'.arg # <<>>
    \/ lastOp'.op = "detectResolves" /\ detections' # detections

\* C14: every step that appends a detection to the log, by the scheduler, the
\* vision audit or processFrame, raises the riskScore of the detection's
\* camera unless it was 100, lowers the overall score unless it was 0, and
\* lowers the sub-score its category names (ppe, behavior) unless it was 0.
C14_DetectionMovesScores ==
    [][Appended
          => LET added == detections'[1]
             IN  /\ HasCamera(cameras, added.cameraId)
                    => \/ FindCamera(cameras, added.cameraId).riskScore = 100
                       \/ FindCamera(cameras', added.cameraId).riskScore
                             > FindCamera(cameras, added.cameraId).riskScore
                 /\ \/ safetyScore.overall = 0
                    \/ safetyScore'.overall < safetyScore.overall
                 /\ added.type \in {"ppe", "behavior"}
                    => \/ safetyScore[added.type] = 0
                       \/ safetyScore'[added.type] < safetyScore[added.type]]_vars

----------------------------------------------------------------------------
(* Claims on the camera lifecycle *)


\* C5: a camera record with active = true has status online or connecting.
\* Revision B breaks it: a rejected getUserMedia sets status 'offline' and
\* leaves active as it was.
C5_ActiveImpliesOnline ==
    \A i \in 1..Len(cameras) :
        cameras[i].active => cameras[i].status \in {"online", "connecting"}

\* C6: the number of cameras with active = true never exceeds
\* MAX_SIMULTANEOUS_STREAMS. Every startCamera of a batch, and of two batches
\* whose acquisitions are still pending, counts the active cameras before any
\* of them has become active.
C6_ActiveWithinCap ==
    Cardinality(ActiveIds(cameras)) <= MAX_SIMULTANEOUS_STREAMS

C8_StartActiveIsNoop ==
    [][(lastOp'.op = "startCamera" /\ lastOp'.cam \in ActiveIds(cameras))
          => (cameras' = cameras /\ startCalls' = startCalls)]_vars

\* C9: no acquired stream is left unreleased without a camera record of the
\* registry referring to it. Of two calls in flight for one camera both
\* acquire a stream and the later one replaces the earlier in the record.
C9_NoOrphanStream ==
    \A st \in liveStreams :
        HasCamera(cameras, st[1]) => st \in AttachedStreams(cameras)

\* C17: stopCamera(id) on an active camera, local or network, leaves that
\* camera with active = false, status offline and no stream, and every other
\* camera record as it was.
C17_StopDeactivates ==
    [][(lastOp'.op = "stopCamera" /\ lastOp'.cam \in ActiveIds(cameras))
          => \A i \in 1..Len(cameras) :
                IF cameras[i].id = lastOp'.cam
                THEN /\ ~cameras'[i].active
                     /\ cameras'[i].status = "offline"
                     /\ cameras'[i].stream = NoStream
                ELSE cameras'[i] = cameras[i]]_vars

\* C18: whatever was saved, the cameras the component loads from storage at
\* start-up are the saved ones, each with active = false, no stream and status
\* offline, and no acquisition is in flight; and an acquisition is only ever
\* issued by startCamera or by a bulk start, which the operator triggers.
C18_LoadResetsCameras ==
    /\ [][lastOp'.op = "reload"
            => /\ Len(cameras') = Len(cameras)
               /\ \A i \in 1..Len(cameras) :
                     /\ cameras'[i].id = cameras[i].id
                     /\ ~cameras'[i].active
                     /\ cameras'[i].stream = NoStream
                     /\ cameras'[i].status = "offline"
               /\ startCalls' = {}]_vars
    /\ [][startCalls' \ startCalls # {}
            => lastOp'.op \in {"startCamera", "startAllCamerasInPage"}]_vars

\* the page was reloaded while a local camera was active and held a stream
\* and an IP camera was online
C18_Witness ==
    /\ lastOp.op = "reload"
    /\ \E id \in lastOp.arg : FindCamera(cameras, id).connectionType = "local"
    /\ \E id \in lastOp.arg : FindCamera(cameras, id).connectionType = "network"
    /\ \A i \in 1..Len(cameras) : ~cameras[i].active

\* the status of the camera with the id in a registry
StatusOf(cams, cameraId) == FindCamera(cams, cameraId).status

\* C21: a camera's status becomes no-hardware only when its getUserMedia
\* rejects, and a camera that is no-hardware keeps that status through every
\* startCamera (the call and its outcome) and every stopCamera, one by one or
\* in bulk: only the removal of its record ends it.
C21_NoHardwareIsSink ==
    [][\A cameraId \in IdsOf(cameras) \cap IdsOf(cameras') :
          /\ (/\ StatusOf(cameras, cameraId) # "no-hardware"
              /\ StatusOf(cameras', cameraId) = "no-hardware")
             => lastOp'.op = "getUserMediaRejects"
          /\ (/\ StatusOf(cameras, cameraId) = "no-hardware"
              /\ lastOp'.op \in {"startCamera", "startAllCamerasInPage",
                                 "getUserMediaResolves", "getUserMediaRejects",
                                 "stopCamera", "stopAllCameras"})
             => StatusOf(cameras', cameraId) = "no-hardware"]_vars

\* C22: when getUserMedia rejects in startCamera, the camera ends no-hardware
\* if the error is a device-not-found or unsatisfiable-constraint error and
\* offline for any other error, and in both cases inactive and without a
\* stream.
C22_StartFailureStatus ==
    [][(lastOp'.op = "getUserMediaRejects" /\ HasCamera(cameras', lastOp'.cam))
          => LET failed == FindCamera(cameras', lastOp'.cam)
             IN  /\ failed.status =
                       IF lastOp'.arg \in {"NotFoundError", "OverconstrainedError"}
                       THEN "no-hardware" ELSE "offline"
                 /\ ~failed.active
                 /\ failed.stream = NoStream]_vars

----------------------------------------------------------------------------
(* Claims on the detection scheduler *)

\* C4: at most one net.detect is in flight at any time, whatever closures of
\* runDetection the effect has started; and a cycle that finds one in flight
\* calls the detector on no camera and arms a timer of its own closure
\* BUSY_DELAY (100 ms) ahead.
C4_OneDetectInFlight ==
    /\ [](Cardinality(detectCalls) <= 1)
    /\ [][(lastOp'.op \in {"selectCamera", "timerFires"} /\ lastOp'.arg = "busy")
            => /\ detectCalls' = detectCalls
               /\ \E timer \in timers' :
                     /\ timer.chain = IF lastOp'.op = "timerFires"
                                      THEN lastOp'.cam ELSE chains'
                     /\ timer.delay = BUSY_DELAY
                     /\ timer.due = now + BUSY_DELAY]_vars

\* a timer callback has found the call of another closure in flight
C4_Witness ==
    /\ lastOp.op = "timerFires"
    /\ lastOp.arg = "busy"
    /\ \E call \in detectCalls : call.chain # lastOp.cam
    /\ \E timer \in timers : timer.chain = lastOp.cam /\ timer.due = now + BUSY_DELAY

\* the target of a resolved call is no longer registered, or no longer active
StaleTarget(cameraId) ==
    \/ ~HasCamera(cameras, cameraId)
    \/ ~FindCamera(cameras, cameraId).active

\* C10: when net.detect resolves for a camera that was stopped or removed
\* while the call was pending, the log, the safety score, the cooldown
\* timestamps and the camera records stay as they were. runDetection reads
\* camerasRef only before the await: the loop over the predictions applies
\* them to the camera it picked then.
C10_StaleResultDiscarded ==
    [][(lastOp'.op = "detectResolves" /\ StaleTarget(lastOp'.cam))
          => UNCHANGED <<detections, safetyScore, lastAlertTimeRef, cameras>>]_vars

\* C11: when net.detect rejects in a scheduler cycle, no camera record
\* changes (status, active flag, riskScore), the log and the safety score stay
\* as they were, the in-flight flag is cleared, and the closure of the call
\* arms its next cycle DETECTION_INTERVAL (1200 ms) ahead.
C11_RejectRearmsNominal ==
    [][lastOp'.op = "detectRejects"
          => /\ UNCHANGED <<cameras, detections, safetyScore, lastAlertTimeRef>>
             /\ isProcessingRef' = FALSE
             /\ \E call \in detectCalls \ detectCalls' :
                   \E timer \in timers' :
                      /\ timer.chain = call.chain
                      /\ timer.delay = DETECTION_INTERVAL
                      /\ timer.due = now + DETECTION_INTERVAL]_vars

\* the detector has rejected a call on a running camera: the flag is clear and
\* a timer at the nominal interval is pending
C11_Witness ==
    /\ lastOp.op = "detectRejects"
    /\ HasCamera(cameras, lastOp.cam)
    /\ FindCamera(cameras, lastOp.cam).active
    /\ ~isProcessingRef
    /\ \E timer \in timers : timer.due = now + DETECTION_INTERVAL

\* a started closure of runDetection has its next cycle armed or its call of
\* the detector in flight
ChainArmed(chain) ==
    \/ \E timer \in timers : timer.chain = chain
    \/ \E call \in detectCalls : call.chain = chain

\* the delay runDetection arms on the path it took
DelayOf(branch) ==
    IF branch = "busy" THEN BUSY_DELAY
    ELSE IF branch = "idle" THEN IDLE_DELAY
    ELSE DETECTION_INTERVAL

\* C12: every execution of runDetection that returns leaves the next cycle of
\* its closure armed: BUSY_DELAY ahead when an evaluation is in flight,
\* IDLE_DELAY ahead when no camera is active and online, DETECTION_INTERVAL
\* ahead when the frame is not ready and after the detector has resolved or
\* rejected; so every started closure always has a timer pending or a call in
\* flight, and once the scheduler has started it runs a cycle infinitely often.
C12_SchedulerNeverStops ==
    /\ [](\A chain \in 1..chains : ChainArmed(chain))
    /\ [][(lastOp'.op \in {"netLoaded", "selectCamera", "timerFires"}
             /\ lastOp'.arg \in {"busy", "idle", "notReady"})
            => \E timer \in timers' :
                  /\ timer.chain = IF lastOp'.op = "timerFires"
                                   THEN lastOp'.cam ELSE chains'
                  /\ timer.delay = DelayOf(lastOp'.arg)
                  /\ timer.due = now + DelayOf(lastOp'.arg)]_vars
    /\ [][lastOp'.op \in {"detectResolves", "detectRejects"}
            => \E call \in detectCalls \ detectCalls' :
                  \E timer \in timers' :
                     /\ timer.chain = call.chain
                     /\ timer.due = now + DETECTION_INTERVAL]_vars
    /\ (<>(chains > 0) => []<><<RunsCycle>>_armed)

\* a timer callback has found no camera active and online after the camera
\* was stopped, and has armed the next cycle of its closure IDLE_DELAY ahead
C12_Witness ==
    /\ lastOp.op = "timerFires"
    /\ lastOp.arg = "idle"
    /\ cameras # <<>>
    /\ \E timer \in timers :
          timer.chain = lastOp.cam /\ timer.due = now + IDLE_DELAY

\* the predictions of a detector result that pass the threshold
Passing(predictions) ==
    LET AtLeast(p) == p.score >= MIN_SCORE
    IN  SelectSeq(predictions, AtLeast)

\* C15: a detector result whose predictions are all below the acceptance
\* threshold (0.65) adds no log entry, changes no camera record, no field of
\* the safety score and no cooldown timestamp, and starts no vision audit,
\* whatever their classes and whichever camera was the target; and no result
\* adds more entries than it has predictions at or above the threshold.
C15_BelowThresholdIgnored ==
    [][lastOp'.op = "detectResolves"
          => /\ Passing(lastOp'.arg) = <<>>
                => UNCHANGED <<detections, cameras, safetyScore,
                               lastAlertTimeRef, visionCalls>>
             /\ Len(detections') <= Len(detections) + Len(Passing(lastOp'.arg))]_vars

\* the detector has answered with a person and a cell phone just below the
\* threshold while the vision engine is loaded and the log holds an entry
C15_Witness ==
    /\ lastOp.op = "detectResolves"
    /\ Len(lastOp.arg) = 2
    /\ Passing(lastOp.arg) = <<>>
    /\ engine
    /\ detections # <<>>

\* the category runDetection gives a class of the detector
Category(class) == IF class = "person" THEN "person" ELSE "behavior"

\* a detection of the category was accepted for the camera and the cooldown
\* window it opened has not elapsed at time t
InWindow(cameraId, kind, t) ==
    /\ LastAlert(lastAlertTimeRef, cameraId, kind) # 0
    /\ t - LastAlert(lastAlertTimeRef, cameraId, kind) <= COOLDOWN

\* a detection of the category was accepted for the camera and its window
\* has elapsed at time t
WindowElapsed(cameraId, kind, t) ==
    /\ LastAlert(lastAlertTimeRef, cameraId, kind) # 0
    /\ t - LastAlert(lastAlertTimeRef, cameraId, kind) > COOLDOWN

\* C16: once a detection of category K is accepted for camera C, a detector
\* result for C inside the cooldown window (10000 ms) leaves the stored
\* timestamp of (C, K) as it was for each of its predictions of K, and leaves
\* the log, the camera records and the safety score as they were when all its
\* predictions are inside their windows; and a prediction of K for C that
\* comes after the window has elapsed is accepted: the log gets an entry of K
\* for C with the time of the cycle and the stored timestamp becomes that time.
C16_CooldownWindow ==
    [][lastOp'.op = "detectResolves"
          => LET cameraId == lastOp'.cam
                 passing == Passing(lastOp'.arg)
                 kinds == {Category(passing[i].class) : i \in 1..Len(passing)}
             IN  /\ \A kind \in kinds :
                       InWindow(cameraId, kind, now)
                       => lastAlertTimeRef'[<<cameraId, kind>>]
                             = lastAlertTimeRef[<<cameraId, kind>>]
                 /\ (kinds # {} /\ \A kind \in kinds : InWindow(cameraId, kind, now))
                       => UNCHANGED <<detections, cameras, safetyScore>>
                 /\ \A kind \in kinds :
                       WindowElapsed(cameraId, kind, now)
                       => /\ lastAlertTimeRef'[<<cameraId, kind>>] = now
                          /\ \E i \in 1..Len(detections') :
                                /\ detections'[i].cameraId = cameraId
                                /\ detections'[i].type = kind
                                /\ detections'[i].timestamp = now]_vars

\* the camera is registered, active and online
IsTarget(cameraId) ==
    /\ HasCamera(cameras, cameraId)
    /\ FindCamera(cameras, cameraId).active
    /\ FindCamera(cameras, cameraId).status = "online"

\* C23: while a call of the detector is in flight for one camera, settling
\* late or never, every other camera that is active and online is eventually
\* the target of an evaluation, unless it stops being active and online.
C23_HungDetectDoesNotBlock ==
    \A cameraId \in SchedIds :
        (/\ IsTarget(cameraId)
         /\ \E call \in detectCalls : call.target # cameraId)
        ~> (\/ ~IsTarget(cameraId)
            \/ \E call \in detectCalls : call.target = cameraId)

\* the target the claim names for a cycle under the selection sel: the
\* selected camera if it is active and online, else the first such camera
TargetUnder(sel) ==
    IF sel # 0 /\ IsTarget(sel) THEN sel ELSE targetCams[1].id

\* C25: a scheduler cycle that finds a camera active and online evaluates
\* exactly one camera: the camera the operator has selected at the time of
\* the cycle if it is active and online, otherwise the first camera that is.
C25_TargetFollowsSelection ==
    [][detectCalls' # detectCalls /\ lastOp'.op \in {"netLoaded", "selectCamera", "timerFires"}
          => /\ Cardinality(detectCalls' \ detectCalls) = 1
             /\ \A call \in detectCalls' \ detectCalls :
                   call.target = TargetUnder(selectedCameraId')]_vars

\* C26: a prediction for (camera, category) is discarded exactly when the
\* time since the last accepted one is strictly less than the cooldown
\* window: inside the window the stored timestamp stays, and from exactly one
\* window on the prediction is accepted, the log gets its entry and the
\* stored timestamp becomes the time of the cycle.
C26_WindowEdge ==
    [][lastOp'.op = "detectResolves"
          => LET cameraId == lastOp'.cam
                 passing == Passing(lastOp'.arg)
                 kinds == {Category(passing[i].class) : i \in 1..Len(passing)}
                 last(kind) == LastAlert(lastAlertTimeRef, cameraId, kind)
             IN  \A kind \in kinds :
                    last(kind) # 0
                    => IF now - last(kind) < COOLDOWN
                       THEN lastAlertTimeRef'[<<cameraId, kind>>] = last(kind)
                       ELSE /\ lastAlertTimeRef'[<<cameraId, kind>>] = now
                            /\ \E i \in 1..Len(detections') :
                                  /\ detections'[i].cameraId = cameraId
                                  /\ detections'[i].type = kind
                                  /\ detections'[i].timestamp = now]_vars

\* C27: at most one timer of the scheduler is pending at any time, whatever
\* model-loaded and selection events have re-run the effect that calls
\* runDetection: there is a single self-rescheduling chain.
C27_OneTimerPending ==
    Cardinality(timers) <= 1

\* C28: in the animation loop, with one to nine cameras in the processing
\* queue, every queued camera gets through the frame-skip gate of processFrame
\* infinitely often: the counter all cameras share lets none of them wait for
\* ever.
C28_EveryCameraSampled ==
    \A cameraId \in 1..MaxQueue :
        []<>(\/ cameraId \notin processingQueue
             \/ lastOp.op = "animationFrame" /\ lastOp.cam = cameraId)


----------------------------------------------------------------------------
(* Claims on the offline AI service *)

\* C29: under any interleaving of initialize calls at most one engine
\* creation is in flight, isInitializing is true exactly while a creation is
\* in flight (so it is false again once the creation ended, with or without
\* an error), an initialize call that returns without error leaves isReady()
\* true, and offlineAI.isModelLoaded implies that the engine is loaded
C29_InitializeSerialised ==
    /\ [](initCalls.creating <= 1)
    /\ [](isInitializing <=> initCalls.creating > 0)
    /\ [][lastOp'.op \in {"initializeReturns", "createResolves"} => isReady']_vars
    /\ [](offlineAI.isModelLoaded => isReady)


----------------------------------------------------------------------------
(* Claims on the performance monitor *)

\* C30: the history never holds more than maxMetrics entries, and a
\* recordMetric call keeps the entries it found, in their order, but for the
\* oldest when the history was full, and appends one entry, each of whose
\* fields is the value the call passed or, where it passed none, the value
\* of the latest entry recorded before it
C30_HistoryBounded ==
    /\ [](Len(metrics) <= maxMetrics)
    /\ [][lastOp'.op \in {"measureFPS", "checkMemory"} =>
            LET metric == lastOp'.arg
                entry == metrics'[Len(metrics')]
                evicted == IF Len(metrics) = maxMetrics THEN 1 ELSE 0
                Given(value, earlier) ==
                    IF value = Undefined THEN earlier ELSE value
            IN  /\ Len(metrics') = Len(metrics) + 1 - evicted
                /\ \A i \in 1..(Len(metrics') - 1) :
                       metrics'[i] = metrics[i + evicted]
                /\ Len(metrics) > 0 =>
                       LET latest == metrics[Len(metrics)]
                       IN  /\ entry.memoryUsage =
                                  Given(metric.memoryUsage, latest.memoryUsage)
                           /\ entry.cpuUsage =
                                  Given(metric.cpuUsage, latest.cpuUsage)
                           /\ entry.fps = Given(metric.fps, latest.fps)]_vars

\* a call that passed no fps found the history full: its entry carries the
\* fps of an earlier call, and the entry now first is not the first recorded
C30_Witness ==
    /\ lastOp.op = "checkMemory"
    /\ Len(metrics) = maxMetrics
    /\ metrics[Len(metrics)].fps \in FpsValues
    /\ metrics[1].fps \in FpsValues
    /\ metrics[1].memoryUsage \in MemoryValues

====
